---- MODULE Spec2Model ----
(***************************************************************************)
(* DataSourceSearchable (src/index.js): primary-key lookup, insertion and  *)
(* deletion over a row store, through a lazily built index PX (a           *)
(* permutation of row positions in ascending primary-key order) and a      *)
(* column-by-column binary search.                                         *)
(*                                                                         *)
(* Row positions and index positions are 0-based as in the source; the     *)
(* TLA+ sequences that hold them are 1-based, so position y of a sequence   *)
(* s is s[y + 1].  A JavaScript value that may be `undefined` is modelled  *)
(* as a sequence of length 0 (undefined) or 1 (the value).                 *)
(***************************************************************************)
EXTENDS Integers, Sequences, FiniteSets, TLC

VARIABLES
    rows,       \* the row store: sequence of rows (column name -> number)
    PK,         \* this.PK: sequence of column names
    PX,         \* this.PX when defined: sequence of row positions
    hasPX,      \* whether this.PX is defined (an array, possibly empty)
    hasData,    \* whether this.data, a local collection of the rows, exists
    call,       \* the public method in progress or just returned, with its arguments
    ret,        \* what that call returned or threw
    requests,   \* the publish() requests that call issued, with the adapter's answer
    pre         \* rows, PK, PX and hasPX as they were when the call was entered

vars == <<rows, PK, PX, hasPX, hasData, call, ret, requests, pre>>

\* ---------------------------------------------------------------- bounds

\* Largest row count of the store.
MaxRows == 3

\* The primary keys an instance is configured with: one or two columns where
\* the store is also mutated, one to three columns where it is only searched.
PKChoices == { <<"a">>, <<"a", "b">> }

SearchPKChoices == PKChoices \cup { <<"a", "b", "c">> }

\* The values a key column takes in the rows and search arguments drawn.
KeyValues(pk) == IF Len(pk) = 1 THEN 1..4 ELSE 1..2

\* ------------------------------------------------------ JavaScript values

Undefined == <<>>

Some(v) == <<v>>

Range(s) == { s[i] : i \in 1..Len(s) }

\* row[key] of a row object: undefined when the row has no such column.
Field(row, key) == IF key \in DOMAIN row THEN Some(row[key]) ELSE Undefined

\* p < q, p > q, p >= q of two possibly undefined numbers: every comparison
\* with undefined is false.
Lt(p, q) == p # Undefined /\ q # Undefined /\ p[1] < q[1]

Gt(p, q) == p # Undefined /\ q # Undefined /\ p[1] > q[1]

Ge(p, q) == p # Undefined /\ q # Undefined /\ p[1] >= q[1]

NoError == "none"

TypeError == "TypeError"

RowExists == "Row exists."

CannotDerive == "Cannot derive primary key."

MissingColumn == "Expected primary key column to be part of search arg."

ExpectedObject == "Expected search arg to be an object for multi-column primary key."

NotFullyQualified == "Expected fully qualified search arg."

\* Array.prototype.splice(at, 0, v) and splice(at, 1): the start is clamped
\* to the length of the array.
Clamp(at, s) == IF at > Len(s) THEN Len(s) ELSE IF at < 0 THEN 0 ELSE at

\* Mutant of SpliceIn: the entry is pushed at the end of the array.
SpliceInAtEnd(s, at, v) == Append(s, v)

SpliceIn(s, at, v) ==
    LET k == Clamp(at, s)
    IN  SubSeq(s, 1, k) \o <<v>> \o SubSeq(s, k + 1, Len(s))

SpliceOut(s, at) ==
    LET k == Clamp(at, s)
    IN  SubSeq(s, 1, k) \o SubSeq(s, k + 2, Len(s))

\* ------------------------------------------------------- the row store

\* this.getRowCount()
getRowCount(self) == Len(self.rows)

\* this.getRow(y): the row at position y, undefined outside 0..rowCount-1
\* (and for an undefined y).
getRow(self, y) ==
    IF y # Undefined /\ y[1] \in 0..(Len(self.rows) - 1)
    THEN Some(self.rows[y[1] + 1])
    ELSE Undefined

\* this.PX[i]: undefined outside the array.
PXAt(self, i) ==
    IF i \in 0..(Len(self.PX) - 1) THEN Some(self.PX[i + 1]) ELSE Undefined

\* The adapter's handling of 'add-row': the row is appended.
AddRow(rs, dataRow) == Append(rs, dataRow)

\* The adapter's handling of 'del-row': the row at the position is removed
\* and every later row moves down by one.
DelRow(rs, y) ==
    IF y # Undefined /\ y[1] \in 0..(Len(rs) - 1)
    THEN SubSeq(rs, 1, y[1]) \o SubSeq(rs, y[1] + 2, Len(rs))
    ELSE rs

\* ------------------------------------------------------------ the index

\* comparator(a, b): this.PK.find stops at the first column whose comparison
\* is non-zero and `result` keeps the last comparison made.
RECURSIVE comparatorFrom(_, _, _, _)
comparatorFrom(self, a, b, i) ==
    IF i > Len(self.PK) THEN 0
    ELSE LET p == Field(a, self.PK[i])
             q == Field(b, self.PK[i])
             result == IF Lt(p, q) THEN -1 ELSE IF Gt(p, q) THEN 1 ELSE 0
         IN  IF result # 0 THEN result ELSE comparatorFrom(self, a, b, i + 1)

\* Mutant of comparator: the two rows are taken in the other order.
comparatorSwapped(self, a, b) ==
    comparatorFrom(self, getRow(self, Some(b))[1], getRow(self, Some(a))[1], 1)

comparator(self, a, b) ==
    comparatorFrom(self, getRow(self, Some(a))[1], getRow(self, Some(b))[1], 1)

\* Array.prototype.sort(comparator) as a stable insertion sort: an element
\* goes after every element already placed that does not compare greater.
RECURSIVE insertSorted(_, _, _, _)
insertSorted(self, placed, x, i) ==
    IF i = 0 \/ comparator(self, placed[i], x) <= 0
    THEN SubSeq(placed, 1, i) \o <<x>> \o SubSeq(placed, i + 1, Len(placed))
    ELSE insertSorted(self, placed, x, i - 1)

RECURSIVE sort(_, _, _)
sort(self, s, placed) ==
    IF s = <<>> THEN placed
    ELSE sort(self, Tail(s), insertSorted(self, placed, Head(s), Len(placed)))

\* derivePX(): a cached non-empty index is reused; otherwise the identity
\* permutation of 0..rowCount-1 is sorted by the comparator.
derivePX(self) ==
    IF self.hasPX /\ Len(self.PX) # 0 THEN self.PX
    ELSE sort(self, [i \in 1..getRowCount(self) |-> i - 1], <<>>)

\* getIndexedRow(i) = this.getRow(this.PX[i])
getIndexedRow(self, indexedRowIndex) == getRow(self, PXAt(self, indexedRowIndex))

\* The accessor find() hands to the searches: getIndexedRow when this.PX is
\* defined, this.getRow otherwise.
getRowVia(self, i) ==
    IF self.hasPX THEN getIndexedRow(self, i) ELSE getRow(self, Some(i))

\* --------------------------------------------------------- the primary key

\* Number of distinct values of a column over the local rows (the keys of
\* the histogram object s of derivePK); the histogram stays empty when the
\* instance has no `data`.
uniqueValues(self, key) ==
    IF self.hasData
    THEN Cardinality({ Field(self.rows[i], key) : i \in 1..Len(self.rows) })
    ELSE 0

\* Mutant of insertByHits: a column goes before the columns already placed
\* that have as many distinct values.
RECURSIVE insertByHitsUnstable(_, _, _, _)
insertByHitsUnstable(self, placed, key, i) ==
    IF i = 0 \/ uniqueValues(self, key) - uniqueValues(self, placed[i]) < 0
    THEN SubSeq(placed, 1, i) \o <<key>> \o SubSeq(placed, i + 1, Len(placed))
    ELSE insertByHitsUnstable(self, placed, key, i - 1)

RECURSIVE insertByHits(_, _, _, _)
insertByHits(self, placed, key, i) ==
    IF i = 0 \/ uniqueValues(self, key) - uniqueValues(self, placed[i]) <= 0
    THEN SubSeq(placed, 1, i) \o <<key>> \o SubSeq(placed, i + 1, Len(placed))
    ELSE insertByHits(self, placed, key, i - 1)

RECURSIVE sortByHits(_, _, _)
sortByHits(self, keys, placed) ==
    IF keys = <<>> THEN placed
    ELSE sortByHits(self, Tail(keys),
                    insertByHits(self, placed, Head(keys), Len(placed)))

\* Mutant of derivePK: the key is derived from every object search argument,
\* cached key or not.
derivePKAfresh(self, sarg) ==
    IF sarg.type # "object" THEN [threw |-> NoError, PK |-> self.PK]
    ELSE [threw |-> NoError, PK |-> sortByHits(self, sarg.keys, <<>>)]

\* derivePK(sarg): a non-empty this.PK is returned as it is; otherwise the
\* keys of an object sarg, columns with more distinct values first.
derivePK(self, sarg) ==
    IF Len(self.PK) # 0 THEN [threw |-> NoError, PK |-> self.PK]
    ELSE IF sarg.type # "object" THEN [threw |-> CannotDerive, PK |-> self.PK]
    ELSE [threw |-> NoError, PK |-> sortByHits(self, sarg.keys, <<>>)]

\* ------------------------------------------------------ the binary searches

\* Mutant of binSearch: the two halves are taken the wrong way round.
RECURSIVE binSearchSwapped(_, _, _, _, _)
binSearchSwapped(self, key, value, min, max) ==
    IF min > max
    THEN [threw |-> NoError, PX_index |-> min, dataRow |-> Undefined]
    ELSE LET mid == (min + max) \div 2
             dataRow == getRowVia(self, mid)
         IN  IF dataRow = Undefined
             THEN [threw |-> TypeError, PX_index |-> min, dataRow |-> Undefined]
             ELSE LET field == Field(dataRow[1], key)
                  IN  IF Lt(field, value)
                      THEN binSearchSwapped(self, key, value, min, mid - 1)
                      ELSE IF Gt(field, value)
                      THEN binSearchSwapped(self, key, value, mid + 1, max)
                      ELSE [threw |-> NoError, PX_index |-> mid, dataRow |-> dataRow]

\* binSearch(getRow, key, value, min, max): the position of a row whose
\* column equals the value, with the row; or the insertion point alone.
\* Reading a column of an undefined row throws a TypeError.
RECURSIVE binSearch(_, _, _, _, _)
binSearch(self, key, value, min, max) ==
    IF min > max
    THEN [threw |-> NoError, PX_index |-> min, dataRow |-> Undefined]
    ELSE LET mid == (min + max) \div 2
             dataRow == getRowVia(self, mid)
         IN  IF dataRow = Undefined
             THEN [threw |-> TypeError, PX_index |-> min, dataRow |-> Undefined]
             ELSE LET field == Field(dataRow[1], key)
                  IN  IF Gt(field, value)
                      THEN binSearch(self, key, value, min, mid - 1)
                      ELSE IF Lt(field, value)
                      THEN binSearch(self, key, value, mid + 1, max)
                      ELSE [threw |-> NoError, PX_index |-> mid, dataRow |-> dataRow]

\* Mutant of binSearchMin: `>` for `>=`, which is binSearchMax.
RECURSIVE binSearchMinStrict(_, _, _, _, _)
binSearchMinStrict(self, key, value, min, max) ==
    IF min > max THEN [threw |-> NoError, min |-> min]
    ELSE LET mid == (min + max) \div 2
             dataRow == getRowVia(self, mid)
         IN  IF dataRow = Undefined THEN [threw |-> TypeError, min |-> min]
             ELSE IF Gt(Field(dataRow[1], key), value)
             THEN binSearchMinStrict(self, key, value, min, mid - 1)
             ELSE binSearchMinStrict(self, key, value, mid + 1, max)

\* binSearchMin: the first position in min..max whose column is >= value.
RECURSIVE binSearchMin(_, _, _, _, _)
binSearchMin(self, key, value, min, max) ==
    IF min > max THEN [threw |-> NoError, min |-> min]
    ELSE LET mid == (min + max) \div 2
             dataRow == getRowVia(self, mid)
         IN  IF dataRow = Undefined THEN [threw |-> TypeError, min |-> min]
             ELSE IF Ge(Field(dataRow[1], key), value)
             THEN binSearchMin(self, key, value, min, mid - 1)
             ELSE binSearchMin(self, key, value, mid + 1, max)

\* binSearchMax: the first position in min..max whose column is > value.
RECURSIVE binSearchMax(_, _, _, _, _)
binSearchMax(self, key, value, min, max) ==
    IF min > max THEN [threw |-> NoError, min |-> min]
    ELSE LET mid == (min + max) \div 2
             dataRow == getRowVia(self, mid)
         IN  IF dataRow = Undefined THEN [threw |-> TypeError, min |-> min]
             ELSE IF Gt(Field(dataRow[1], key), value)
             THEN binSearchMax(self, key, value, min, mid - 1)
             ELSE binSearchMax(self, key, value, mid + 1, max)

\* ------------------------------------------------------------------ find

\* Mutant of normalize: a scalar is wrapped whatever the length of the key.
normalizeWrapped(pk, sarg) ==
    IF sarg.type = "object"
    THEN IF \E i \in 1..Len(pk) : pk[i] \notin DOMAIN sarg.obj
         THEN [threw |-> MissingColumn, sarg |-> <<>>]
         ELSE [threw |-> NoError,
               sarg |-> [i \in 1..Len(pk) |-> Some(sarg.obj[pk[i]])]]
    ELSE [threw |-> NoError, sarg |-> <<Some(sarg.num)>>]

\* The search argument as the tuple of its values in PK order (the object
\* branch of find), or the message of the error thrown.
normalize(pk, sarg) ==
    IF sarg.type = "object"
    THEN IF \E i \in 1..Len(pk) : pk[i] \notin DOMAIN sarg.obj
         THEN [threw |-> MissingColumn, sarg |-> <<>>]
         ELSE [threw |-> NoError,
               sarg |-> [i \in 1..Len(pk) |-> Some(sarg.obj[pk[i]])]]
    ELSE IF Len(pk) = 1
    THEN [threw |-> NoError, sarg |-> <<Some(sarg.num)>>]
    ELSE [threw |-> ExpectedObject, sarg |-> <<>>]

\* The forEach over PK.slice(0, maxKey): each column but the last narrows
\* min..max to the band of rows equal to the search argument on it.
RECURSIVE narrow(_, _, _, _, _)
narrow(self, sarg, i, min, max) ==
    IF i > Len(self.PK) - 1 THEN [threw |-> NoError, min |-> min, max |-> max]
    ELSE LET lo == binSearchMin(self, self.PK[i], sarg[i], min, max)
         IN  IF lo.threw # NoError
             THEN [threw |-> lo.threw, min |-> min, max |-> max]
             ELSE LET hi == binSearchMax(self, self.PK[i], sarg[i], lo.min, max)
                  IN  IF hi.threw # NoError
                      THEN [threw |-> hi.threw, min |-> lo.min, max |-> max]
                      ELSE narrow(self, sarg, i + 1, lo.min, hi.min - 1)

\* Mutant of resolvePX: options.presorted leaves a cached index in place.
resolvePXKept(self, options) ==
    IF options.presorted THEN self
    ELSE IF options.reindex
    THEN [self EXCEPT !.hasPX = TRUE,
                      !.PX = derivePX([self EXCEPT !.hasPX = FALSE, !.PX = <<>>])]
    ELSE [self EXCEPT !.hasPX = TRUE, !.PX = derivePX(self)]

\* Mutant of resolvePX: options.reindex is not looked at.
resolvePXCached(self, options) ==
    IF options.presorted THEN [self EXCEPT !.hasPX = FALSE, !.PX = <<>>]
    ELSE [self EXCEPT !.hasPX = TRUE, !.PX = derivePX(self)]

\* this.PX after the options of a search are applied: discarded when
\* presorted, rebuilt when reindex or when none is cached, else reused.
resolvePX(self, options) ==
    IF options.presorted THEN [self EXCEPT !.hasPX = FALSE, !.PX = <<>>]
    ELSE LET cleared == IF options.reindex
                        THEN [self EXCEPT !.hasPX = FALSE, !.PX = <<>>]
                        ELSE self
         IN  [cleared EXCEPT !.hasPX = TRUE, !.PX = derivePX(cleared)]

\* What find gives back: `self` is the instance as find leaves it, `threw`
\* the error thrown if any, PX_index and dataRow the object returned.
Failed(this, message) ==
    [self |-> this, threw |-> message, PX_index |-> 0, dataRow |-> Undefined]

Searched(this, row) ==
    [self |-> this, threw |-> row.threw, PX_index |-> row.PX_index,
     dataRow |-> row.dataRow]

\* PK[maxKey] and sarg[maxKey]: with an empty PK maxKey is -1 and both are
\* undefined, so that binSearch reads the property "undefined" of the rows.
lastKey(pk) == IF pk = <<>> THEN "undefined" ELSE pk[Len(pk)]

lastValue(pk, sarg) == IF pk = <<>> THEN Undefined ELSE sarg[Len(pk)]

\* find, last step: binSearch on the last key column over the narrowed band.
findInBand(this, sarg, band) ==
    IF band.threw # NoError THEN Failed(this, band.threw)
    ELSE Searched(this, binSearch(this, lastKey(this.PK), lastValue(this.PK, sarg),
                                  band.min, band.max))

\* find, from the normalised search argument on: the length check, then the
\* narrowing of 0..rowCount-1 on every key column but the last.
findNormalized(this, norm) ==
    IF norm.threw # NoError THEN Failed(this, norm.threw)
    ELSE IF Len(norm.sarg) # Len(this.PK) THEN Failed(this, NotFullyQualified)
    ELSE findInBand(this, norm.sarg,
                    narrow(this, norm.sarg, 1, 0, getRowCount(this) - 1))

\* find, once derivePK has returned: this.PK and this.PX are assigned before
\* the search argument is looked at.
findWithPK(self, pk, sarg, options) ==
    IF pk.threw # NoError THEN Failed(self, pk.threw)
    ELSE findNormalized(resolvePX([self EXCEPT !.PK = pk.PK], options),
                        normalize(pk.PK, sarg))

\* find(sarg, options)
find(self, sarg, options) == findWithPK(self, derivePK(self, sarg), sarg, options)

\* ------------------------------------------------------- arguments, results

ObjectSarg(keys, obj) == [type |-> "object", keys |-> keys, obj |-> obj, num |-> 0]

NumberSarg(n) == [type |-> "number", keys |-> <<>>, obj |-> <<>>, num |-> n]

NoSarg == [type |-> "none", keys |-> <<>>, obj |-> <<>>, num |-> 0]

Default == [presorted |-> FALSE, reindex |-> FALSE]

Reindex == [presorted |-> FALSE, reindex |-> TRUE]

Presorted == [presorted |-> TRUE, reindex |-> FALSE]

Options == { Default, Reindex, Presorted }

RetUndefined == [type |-> "undefined", value |-> <<>>]

RetObject(row) == [type |-> "object", value |-> <<row>>]

RetBoolean(b) == [type |-> "boolean", value |-> <<b>>]

RetNumber(n) == [type |-> "number", value |-> <<n>>]

Thrown(message) == [type |-> "throw", value |-> <<message>>]

AddRowRequest(dataRow, handled) ==
    [topic |-> "add-row", row |-> Some(dataRow), y |-> Undefined, handled |-> handled]

DelRowRequest(y, handled) ==
    [topic |-> "del-row", row |-> Undefined, y |-> y, handled |-> handled]

\* ------------------------------------------------------ the public methods
\* Each gives the instance and the row store as the method leaves them
\* (`self`), what it returns or throws (`ret`) and the requests it published.
\* The operators named ...Found are the part of a method after its call of
\* find, whose result is `row`.

Outcome(this, value, published) ==
    [self |-> this, ret |-> value, requests |-> published]

findRowFound(row) ==
    Outcome(row.self,
            IF row.threw # NoError THEN Thrown(row.threw)
            ELSE IF row.dataRow = Undefined THEN RetUndefined
            ELSE RetObject(row.dataRow[1]),
            <<>>)

\* findRow(sarg, options)
findRow(self, sarg, options) == findRowFound(find(self, sarg, options))

\* Mutant of findRowNoArgs: this.PX is kept.
findRowNoArgsKept(self) == Outcome(self, RetUndefined, <<>>)

\* findRow(): delete this.PX
findRowNoArgs(self) ==
    Outcome([self EXCEPT !.hasPX = FALSE, !.PX = <<>>], RetUndefined, <<>>)

\* Mutant of physicalIndex: the index position is returned as it is.
physicalIndexRaw(this, index) == Some(index)

\* The index returned by findRowIndex: this.PX[index] when this.PX is defined.
physicalIndex(this, index) ==
    IF this.hasPX THEN PXAt(this, index) ELSE Some(index)

findRowIndexFound(row) ==
    Outcome(row.self,
            IF row.threw # NoError THEN Thrown(row.threw)
            ELSE IF physicalIndex(row.self, row.PX_index) = Undefined THEN RetUndefined
            ELSE RetNumber(physicalIndex(row.self, row.PX_index)[1]),
            <<>>)

\* findRowIndex(sarg, options)
findRowIndex(self, sarg, options) == findRowIndexFound(find(self, sarg, options))

\* Mutant of spliceAfterAdd: the index is edited whatever the answer.
spliceAlways(handled, this) == this.hasPX

\* The condition of the index edit of insertRow: `handled && this.PX`.
spliceAfterAdd(handled, this) == handled /\ this.hasPX

\* The row store after publish('add-row', dataRow).
published(this, dataRow, handled) ==
    IF handled THEN [this EXCEPT !.rows = AddRow(this.rows, dataRow)] ELSE this

\* this.PX.splice(row.PX_index, 0, this.getRowCount() - 1)
indexAdded(added, PX_index, handled) ==
    IF spliceAfterAdd(handled, added)
    THEN [added EXCEPT !.PX = SpliceIn(added.PX, PX_index, getRowCount(added) - 1)]
    ELSE added

insertRowFound(row, dataRow, handled) ==
    IF row.threw # NoError THEN Outcome(row.self, Thrown(row.threw), <<>>)
    ELSE IF row.dataRow # Undefined THEN Outcome(row.self, Thrown(RowExists), <<>>)
    ELSE Outcome(indexAdded(published(row.self, dataRow, handled), row.PX_index, handled),
                 RetBoolean(handled),
                 <<AddRowRequest(dataRow, handled)>>)

\* insertRow(dataRow, options); `handled` is whether a delegate answers the
\* 'add-row' request.
insertRow(self, dataRow, options, handled) ==
    insertRowFound(find(self, dataRow, options), dataRow.obj, handled)

\* The store and the index after a handled 'del-row' request for position y.
deleted(this, PX_index, y) ==
    [this EXCEPT !.rows = DelRow(this.rows, y), !.PX = SpliceOut(this.PX, PX_index)]

\* this.PX[row.PX_index] is evaluated before the request is published and
\* throws a TypeError when this.PX is undefined.
deleteRowFound(row, handled) ==
    IF row.threw # NoError THEN Outcome(row.self, Thrown(row.threw), <<>>)
    ELSE IF row.dataRow = Undefined THEN Outcome(row.self, RetUndefined, <<>>)
    ELSE IF ~row.self.hasPX THEN Outcome(row.self, Thrown(TypeError), <<>>)
    ELSE IF ~handled
    THEN Outcome(row.self, RetBoolean(FALSE),
                 <<DelRowRequest(PXAt(row.self, row.PX_index), FALSE)>>)
    ELSE Outcome(deleted(row.self, row.PX_index, PXAt(row.self, row.PX_index)),
                 RetObject(row.dataRow[1]),
                 <<DelRowRequest(PXAt(row.self, row.PX_index), TRUE)>>)

\* deleteRow(sarg, options); `handled` is whether a delegate answers the
\* 'del-row' request.
deleteRow(self, sarg, options, handled) ==
    deleteRowFound(find(self, sarg, options), handled)

\* --------------------------------------------------------------- the inputs

\* The rows of a table keyed by pk: one number per key column.
RowSet(pk) == [Range(pk) -> KeyValues(pk)]

\* Row stores of at most n rows.
Stores(pk, n) == UNION { [1..k -> RowSet(pk)] : k \in 0..n }

\* Search arguments: an object holding every key column, or a number.
Sargs(pk) ==
    { ObjectSarg(pk, r) : r \in RowSet(pk) }
    \cup { NumberSarg(v) : v \in (IF Len(pk) = 1 THEN KeyValues(pk) ELSE {1}) }

\* --------------------------------------------------------- the state machine

This == [rows |-> rows, PK |-> PK, PX |-> PX, hasPX |-> hasPX, hasData |-> hasData]

Idle == [op |-> "none", argc |-> 0, sarg |-> NoSarg, options |-> Default]

NoSnapshot == [rows |-> <<>>, PK |-> <<>>, PX |-> <<>>, hasPX |-> FALSE]

Snapshot == [rows |-> rows, PK |-> PK, PX |-> PX, hasPX |-> hasPX]

\* A newly constructed instance with options.primaryKey given, over a local
\* row store of any content: this.PK is set and this.PX is not.
Constructed(pks) ==
    /\ PK \in pks
    /\ rows \in Stores(PK, MaxRows)
    /\ PX = <<>>
    /\ hasPX = FALSE
    /\ hasData = TRUE
    /\ call = Idle
    /\ ret = RetUndefined
    /\ requests = <<>>
    /\ pre = NoSnapshot

Init == Constructed(PKChoices)

\* The effect of a method on the state, with the record of the call.
Becomes(op, argc, sarg, options, outcome) ==
    /\ call' = [op |-> op, argc |-> argc, sarg |-> sarg, options |-> options]
    /\ pre' = Snapshot
    /\ rows' = outcome.self.rows
    /\ PK' = outcome.self.PK
    /\ PX' = outcome.self.PX
    /\ hasPX' = outcome.self.hasPX
    /\ ret' = outcome.ret
    /\ requests' = outcome.requests
    /\ UNCHANGED hasData

\* Each action binds the outcome of its method once (a one-element set).
\* The adapter's answer is an input only when the request is published.
FindRowWith(optionSet) ==
    /\ call.op = "none"
    /\ \E sarg \in Sargs(PK), options \in optionSet :
        \E outcome \in { findRow(This, sarg, options) } :
            Becomes("findRow", 2, sarg, options, outcome)

\* The store is capped at MaxRows rows: an insertion that would make it longer
\* is not taken.
InsertRowWith(optionSet, answers) ==
    /\ call.op = "none"
    /\ \E dataRow \in RowSet(PK), options \in optionSet, handled \in answers :
        \E outcome \in { insertRow(This, ObjectSarg(PK, dataRow), options, handled) } :
            /\ Len(outcome.self.rows) <= MaxRows
            /\ (outcome.requests = <<>> => handled)
            /\ Becomes("insertRow", 2, ObjectSarg(PK, dataRow), options, outcome)

DeleteRowWith(optionSet, answers) ==
    /\ call.op = "none"
    /\ \E sarg \in Sargs(PK), options \in optionSet, handled \in answers :
        \E outcome \in { deleteRow(This, sarg, options, handled) } :
            /\ (outcome.requests = <<>> => handled)
            /\ Becomes("deleteRow", 2, sarg, options, outcome)

FindRow == FindRowWith(Options)

FindRowNoArgs ==
    /\ call.op = "none"
    /\ \E outcome \in { findRowNoArgs(This) } :
        Becomes("findRow", 0, NoSarg, Default, outcome)

FindRowIndex ==
    /\ call.op = "none"
    /\ \E sarg \in Sargs(PK), options \in Options :
        \E outcome \in { findRowIndex(This, sarg, options) } :
            Becomes("findRowIndex", 2, sarg, options, outcome)

InsertRow == InsertRowWith(Options, BOOLEAN)

DeleteRow == DeleteRowWith(Options, BOOLEAN)

\* The caller takes the result; the instance is ready for the next call.
Return ==
    /\ call.op # "none"
    /\ call' = Idle
    /\ ret' = RetUndefined
    /\ requests' = <<>>
    /\ pre' = NoSnapshot
    /\ UNCHANGED <<rows, PK, PX, hasPX, hasData>>

Next ==
    \/ FindRow
    \/ FindRowNoArgs
    \/ FindRowIndex
    \/ InsertRow
    \/ DeleteRow
    \/ Return

Spec == Init /\ [][Next]_vars

\* ---------------------------------------------------------------------
\* The vocabulary of the properties, stated on the row store itself.

\* The primary-key tuple of a row.
KeyOf(pk, row) == [i \in 1..Len(pk) |-> row[pk[i]]]

DistinctKeys(pk, rs) ==
    \A i, j \in 1..Len(rs) : KeyOf(pk, rs[i]) = KeyOf(pk, rs[j]) => i = j

\* Lexicographic order of two key tuples of the same length.
LexLess(k1, k2) ==
    \E i \in 1..Len(k1) : k1[i] < k2[i] /\ \A j \in 1..(i - 1) : k1[j] = k2[j]

LexLeq(k1, k2) == k1 = k2 \/ LexLess(k1, k2)

\* px is a permutation of 0..n-1.
IsPermutation(px, n) == Len(px) = n /\ Range(px) = 0..(n - 1)

\* The rows taken in the order of px are in ascending primary-key order.
Ascending(pk, rs, px) ==
    \A i \in 1..(Len(px) - 1) :
        LexLeq(KeyOf(pk, rs[px[i] + 1]), KeyOf(pk, rs[px[i + 1] + 1]))

\* px is an index of the store rs: a permutation of its positions in
\* ascending primary-key order.
SoundIndex(pk, rs, px) == IsPermutation(px, Len(rs)) /\ Ascending(pk, rs, px)

Identity(n) == [i \in 1..n |-> i - 1]

\* A search argument that names a value for every key column.
FullyQualified(pk, sarg) ==
    \/ sarg.type = "object" /\ Range(pk) \subseteq DOMAIN sarg.obj
    \/ sarg.type = "number" /\ Len(pk) = 1

\* Its key tuple.
SargKey(pk, sarg) ==
    IF sarg.type = "object" THEN [i \in 1..Len(pk) |-> sarg.obj[pk[i]]]
    ELSE <<sarg.num>>

\* Linear scan: the positions (1-based) of the rows of rs with that key.
Matching(pk, rs, key) == { i \in 1..Len(rs) : KeyOf(pk, rs[i]) = key }

\* The call just returned is a search (findRow or findRowIndex with arguments).
Searching(op) == call.op = op /\ call.argc = 2

\* The call just returned published this request and got this answer.
Published(topic, handled) ==
    /\ Len(requests) = 1
    /\ requests[1].topic = topic
    /\ requests[1].handled = handled

\* ---------------------------------------------------------------------
\* The instance only searched, with keys of one to three columns.

InitSearch == Constructed(SearchPKChoices)

SearchRow == FindRowWith(Options)

SearchRowIndex == FindRowIndex

ClearIndex == FindRowNoArgs

NextSearch ==
    \/ SearchRow
    \/ SearchRowIndex
    \/ ClearIndex
    \/ Return

SpecSearch == InitSearch /\ [][NextSearch]_vars

\* ---------------------------------------------------------------------
\* The instance used with default options only and an adapter that handles
\* every request, over a store whose primary keys are pairwise distinct.

InitHandled ==
    /\ Init
    /\ DistinctKeys(PK, rows)

FindRowDefault == FindRowWith({Default})

InsertRowHandled == InsertRowWith({Default}, {TRUE})

DeleteRowHandled == DeleteRowWith({Default}, {TRUE})

NextHandled ==
    \/ FindRowDefault
    \/ InsertRowHandled
    \/ DeleteRowHandled
    \/ Return

SpecHandled == InitHandled /\ [][NextHandled]_vars

\* ---------------------------------------------------------------------
\* The instance constructed without options.primaryKey, over rows of two
\* columns, with or without a local collection of the rows: this.PK is
\* derived from the first object search argument that reaches derivePK.

Columns == <<"a", "b">>

\* The key lists of object search arguments over some columns, in the order
\* Object.keys gives them: any columns, in any order, none twice.
KeyLists(columns) ==
    { keys \in UNION { [1..k -> Range(columns)] : k \in 0..Len(columns) } :
        \A i, j \in 1..Len(keys) : keys[i] = keys[j] => i = j }

\* Search arguments of any shape: an object over any key list, or a number.
AnySargs(columns) ==
    UNION { { ObjectSarg(keys, obj) : obj \in [Range(keys) -> KeyValues(columns)] } :
            keys \in KeyLists(columns) }
    \cup { NumberSarg(v) : v \in KeyValues(columns) }

InitDerive ==
    /\ PK = <<>>
    /\ rows \in Stores(Columns, MaxRows - 1)
    /\ PX = <<>>
    /\ hasPX = FALSE
    /\ hasData \in BOOLEAN
    /\ call = Idle
    /\ ret = RetUndefined
    /\ requests = <<>>
    /\ pre = NoSnapshot

DeriveFindRow ==
    /\ call.op = "none"
    /\ \E sarg \in AnySargs(Columns), options \in Options :
        \E outcome \in { findRow(This, sarg, options) } :
            Becomes("findRow", 2, sarg, options, outcome)

DeriveFindRowIndex ==
    /\ call.op = "none"
    /\ \E sarg \in AnySargs(Columns), options \in Options :
        \E outcome \in { findRowIndex(This, sarg, options) } :
            Becomes("findRowIndex", 2, sarg, options, outcome)

\* The rows inserted hold every column; the store is capped as in InitDerive.
DeriveInsertRow ==
    /\ call.op = "none"
    /\ \E dataRow \in RowSet(Columns), options \in Options, handled \in BOOLEAN :
        \E outcome \in { insertRow(This, ObjectSarg(Columns, dataRow), options, handled) } :
            /\ Len(outcome.self.rows) <= MaxRows - 1
            /\ (outcome.requests = <<>> => handled)
            /\ Becomes("insertRow", 2, ObjectSarg(Columns, dataRow), options, outcome)

DeriveDeleteRow ==
    /\ call.op = "none"
    /\ \E sarg \in AnySargs(Columns), options \in Options, handled \in BOOLEAN :
        \E outcome \in { deleteRow(This, sarg, options, handled) } :
            /\ (outcome.requests = <<>> => handled)
            /\ Becomes("deleteRow", 2, sarg, options, outcome)

NextDerive ==
    \/ DeriveFindRow
    \/ DeriveFindRowIndex
    \/ DeriveInsertRow
    \/ DeriveDeleteRow
    \/ FindRowNoArgs
    \/ Return

SpecDerive == InitDerive /\ [][NextDerive]_vars

\* ---------------------------------------------------------------------
\* derivePK alone: the first search of an instance constructed without
\* options.primaryKey, over rows of three columns, with an object over any
\* key list.

WideColumns == <<"a", "b", "c">>

\* One object per key list: derivePK reads the keys only.
KeyedSargs(columns) ==
    { ObjectSarg(keys, [key \in Range(keys) |-> 1]) : keys \in KeyLists(columns) }

InitDerivePK ==
    /\ PK = <<>>
    /\ rows \in Stores(WideColumns, MaxRows)
    /\ PX = <<>>
    /\ hasPX = FALSE
    /\ hasData \in BOOLEAN
    /\ call = Idle
    /\ ret = RetUndefined
    /\ requests = <<>>
    /\ pre = NoSnapshot

FirstFindRow ==
    /\ call.op = "none"
    /\ PK = <<>>
    /\ \E sarg \in KeyedSargs(WideColumns) :
        \E outcome \in { findRow(This, sarg, Default) } :
            Becomes("findRow", 2, sarg, Default, outcome)

NextDerivePK ==
    \/ FirstFindRow
    \/ Return

SpecDerivePK == InitDerivePK /\ [][NextDerivePK]_vars

\* ---------------------------------------------------------------------
\* Properties.

\* C1: over a freshly built index and a store whose primary keys are
\* pairwise distinct, for a key of one, two or three columns, findRow of a
\* fully qualified key returns the row with that key when the store holds
\* one and undefined when it holds none: the narrowing and the final binary
\* search agree with a linear scan of the store.
C1_FindAgreesWithScan ==
    ( /\ Searching("findRow")
      /\ ~call.options.presorted
      /\ (call.options.reindex \/ ~pre.hasPX)
      /\ DistinctKeys(PK, rows)
      /\ FullyQualified(PK, call.sarg) )
    => IF Matching(PK, rows, SargKey(PK, call.sarg)) = {}
       THEN ret = RetUndefined
       ELSE /\ ret.type = "object"
            /\ \E i \in Matching(PK, rows, SargKey(PK, call.sarg)) :
                   ret.value[1] = rows[i]

\* A three-column key found in a store of three rows that agree on the first
\* column and are not stored in key order.
C1_Witness ==
    /\ Searching("findRow")
    /\ ~call.options.presorted
    /\ ~pre.hasPX
    /\ Len(PK) = 3
    /\ Len(rows) = 3
    /\ DistinctKeys(PK, rows)
    /\ \A i \in 1..3 : rows[i].a = rows[1].a
    /\ PX # Identity(3)
    /\ ret.type = "object"

\* C2: an index built from scratch (a search without presorted on an
\* instance with no cached index) is a permutation of 0..rowCount-1 whose
\* adjacent entries are in ascending (<=) lexicographic key order, whatever
\* the rows, duplicates of a key included.
C2_BuiltIndexIsSorted ==
    ( /\ (Searching("findRow") \/ Searching("findRowIndex"))
      /\ ~call.options.presorted
      /\ ~pre.hasPX )
    => hasPX /\ SoundIndex(PK, rows, PX)

\* An index built over three rows, two of them with the same key, that are
\* not stored in key order.
C2_Witness ==
    /\ (Searching("findRow") \/ Searching("findRowIndex"))
    /\ ~call.options.presorted
    /\ ~pre.hasPX
    /\ hasPX
    /\ Len(rows) = 3
    /\ Len(PK) >= 2
    /\ ~DistinctKeys(PK, rows)
    /\ PX # Identity(3)

\* The key of the row or search argument of the call just returned.
CallKey == SargKey(PK, call.sarg)

\* The index cached when the call was entered was an index of the store.
SoundBefore == pre.hasPX /\ SoundIndex(PK, pre.rows, pre.PX)

\* C3: if PX is a sorted permutation of 0..n-1 before insertRow(r), the key of
\* r is not in the store, the adapter handles 'add-row' by appending r at
\* position n and an index is active (no presorted), then afterwards PX is a
\* permutation of 0..n in ascending key order; with default options it is the
\* PX from before with the single entry n inserted (no rebuild).
C3_InsertKeepsIndex ==
    ( /\ Searching("insertRow")
      /\ ~call.options.presorted
      /\ SoundBefore
      /\ Matching(PK, pre.rows, CallKey) = {}
      /\ Published("add-row", TRUE) )
    => /\ rows = Append(pre.rows, call.sarg.obj)
       /\ hasPX
       /\ SoundIndex(PK, rows, PX)
       /\ call.options = Default =>
              \E p \in 0..Len(pre.PX) :
                  /\ PX[p + 1] = Len(pre.rows)
                  /\ SubSeq(PX, 1, p) \o SubSeq(PX, p + 2, Len(PX)) = pre.PX

\* A row inserted, with default options, before the last entry of a cached
\* index of two rows or more.
C3_Witness ==
    /\ Searching("insertRow")
    /\ call.options = Default
    /\ SoundBefore
    /\ Len(pre.rows) >= 2
    /\ Published("add-row", TRUE)
    /\ hasPX
    /\ Len(PX) = Len(pre.PX) + 1
    /\ PX[Len(PX)] # Len(pre.rows)

\* C4: if PX is a sorted permutation of 0..n-1 before deleteRow(k), k matches
\* a row, an index is active and the adapter handles 'del-row' by removing
\* the row at the requested position and moving the later rows down, then
\* afterwards PX is a permutation of 0..n-2 in ascending key order.
C4_DeleteKeepsIndex ==
    ( /\ Searching("deleteRow")
      /\ ~call.options.presorted
      /\ SoundBefore
      /\ Published("del-row", TRUE) )
    => hasPX /\ SoundIndex(PK, rows, PX)

\* C5: in any state reached by handled insertRow and deleteRow calls with
\* default options, for a row r whose key is not in the store, insertRow(r)
\* succeeds and findRow(keyOf(r)) called next returns a row equal to r.
C5_InsertThenFind ==
    ( /\ Searching("insertRow")
      /\ Matching(PK, pre.rows, CallKey) = {} )
    => /\ ret = RetBoolean(TRUE)
       /\ findRow(This, call.sarg, Default).ret = RetObject(call.sarg.obj)

\* C6: for a store of pairwise distinct keys and an existing key k, a handled
\* deleteRow(k) followed by findRow(k) returns undefined and throws nothing.
C6_DeleteThenFind ==
    ( /\ Searching("deleteRow")
      /\ DistinctKeys(PK, pre.rows)
      /\ (pre.hasPX => SoundBefore)
      /\ Published("del-row", TRUE) )
    => findRow(This, call.sarg, Default).ret = RetUndefined

C7_WitnessBuilt ==
    /\ Searching("insertRow")
    /\ call.options = Default
    /\ ret = Thrown(RowExists)
    /\ ~pre.hasPX
    /\ hasPX

\* C8 as stated: for a fully qualified key that is not in the store,
\* findRowIndex over an active index returns the insertion point p in index
\* space: every index entry before p has a smaller key and every entry at or
\* after p a larger one; for rows with ids 3, 1, 2 and a one-column key,
\* findRowIndex(4) returns 3.
C8_InsertionPointReturned ==
    ( /\ Searching("findRowIndex")
      /\ ~call.options.presorted
      /\ FullyQualified(PK, call.sarg)
      /\ Matching(PK, rows, CallKey) = {} )
    => /\ ret.type = "number"
       /\ ret.value[1] \in 0..Len(PX)
       /\ \A i \in 1..Len(PX) :
              IF i <= ret.value[1]
              THEN LexLess(KeyOf(PK, rows[PX[i] + 1]), CallKey)
              ELSE LexLess(CallKey, KeyOf(PK, rows[PX[i] + 1]))
       /\ ( /\ PK = <<"a">>
            /\ rows = <<[a |-> 3], [a |-> 1], [a |-> 2]>>
            /\ call.sarg = NumberSarg(4) )
          => ret = RetNumber(3)

\* The scenario of C8 alone: ids 3, 1, 2 and findRowIndex(4).
C8_Scenario ==
    ( /\ Searching("findRowIndex")
      /\ call.options = Default
      /\ PK = <<"a">>
      /\ rows = <<[a |-> 3], [a |-> 1], [a |-> 2]>>
      /\ call.sarg.type = "number"
      /\ call.sarg.num = 4 )
    => ret = RetNumber(3)

C9_WitnessPresorted ==
    /\ Searching("findRowIndex")
    /\ call.options.presorted
    /\ Matching(PK, rows, CallKey) # {}
    /\ Ascending(PK, rows, Identity(Len(rows)))
    /\ Len(rows) = 3
    /\ ret = RetNumber(2)

TrustedBefore ==
    IF call.options.presorted THEN Ascending(PK, pre.rows, Identity(Len(pre.rows)))
    ELSE (pre.hasPX /\ ~call.options.reindex) => SoundBefore

\* C11 as stated, for a key that is in the store: deleteRow issues one
\* 'del-row' request and returns false when the adapter does not handle it,
\* leaving the row store unchanged, and the data of the deleted row when it
\* does; a matched row never gives another outcome.
C11_DeleteOutcomes ==
    ( /\ Searching("deleteRow")
      /\ FullyQualified(PK, call.sarg)
      /\ TrustedBefore
      /\ Matching(PK, pre.rows, CallKey) # {} )
    => /\ Len(requests) = 1
       /\ requests[1].topic = "del-row"
       /\ IF requests[1].handled
          THEN /\ ret.type = "object"
               /\ KeyOf(PK, ret.value[1]) = CallKey
          ELSE /\ ret = RetBoolean(FALSE)
               /\ rows = pre.rows

\* C12: a search with options.reindex discards the cached index and builds
\* one from the row store: whatever PX was cached, an index of the store or
\* not, after the call PX is a permutation of 0..rowCount-1 in ascending key
\* order.
C12_ReindexRebuilds ==
    ( /\ (Searching("findRow") \/ Searching("findRowIndex"))
      /\ call.options.reindex )
    => /\ rows = pre.rows
       /\ hasPX
       /\ SoundIndex(PK, rows, PX)

\* A reindexing search entered with a cached index that is not a permutation
\* of the positions of the store (a handled deleteRow left it so).
C12_Witness ==
    /\ Searching("findRow")
    /\ call.options.reindex
    /\ pre.hasPX
    /\ ~IsPermutation(pre.PX, Len(pre.rows))
    /\ Len(rows) >= 2
    /\ SoundIndex(PK, rows, PX)

\* The call just returned is a search or a mutation called with arguments.
Called == call.op # "none" /\ call.argc = 2

C14_ClearThenRebuild ==
    (call.op = "findRow" /\ call.argc = 0)
    => /\ ~hasPX
       /\ PX = <<>>
       /\ ret = RetUndefined
       /\ requests = <<>>
       /\ PK = pre.PK
       /\ rows = pre.rows
       /\ \A sarg \in Sargs(PK), options \in {Default, Reindex} :
              /\ find(This, sarg, options).self.rows = rows
              /\ find(This, sarg, options).self.hasPX
              /\ SoundIndex(PK, rows, find(This, sarg, options).self.PX)

\* An index that is no index of the store (a handled deleteRow left it so)
\* cleared by findRow().
C14_Witness ==
    /\ call.op = "findRow"
    /\ call.argc = 0
    /\ pre.hasPX
    /\ Len(pre.rows) >= 2
    /\ ~SoundIndex(PK, pre.rows, pre.PX)
    /\ ~hasPX

Before ==
    [rows |-> pre.rows, PK |-> pre.PK, PX |-> pre.PX, hasPX |-> pre.hasPX,
     hasData |-> hasData]

\* The object that names the value of a scalar for the one column of a key.
AsObject(pk, sarg) == ObjectSarg(pk, [key \in Range(pk) |-> sarg.num])

\* The errors that reject a search argument.
Rejections == { Thrown(CannotDerive), Thrown(MissingColumn),
                Thrown(ExpectedObject), Thrown(NotFullyQualified) }

\* C16: a call with a scalar search argument
\*  - entered with no primary key throws the cannot-derive error
\*    (InvalidArgument) and leaves the key unset;
\*  - entered with a key of one column is not rejected, and does what the same
\*    call does with the object that names the scalar for that column;
\*  - entered with a key of two columns throws the expected-object error
\*    (AmbiguousSearchArgument);
\* and in both failures the row store is as it was.
C16_ScalarArgument ==
    (Called /\ call.sarg.type = "number")
    => /\ pre.PK = <<>>
          => ret = Thrown(CannotDerive) /\ PK = <<>> /\ rows = pre.rows
       /\ Len(pre.PK) = 1
          => /\ ret \notin Rejections
             /\ call.op = "findRow"
                => Outcome(This, ret, requests)
                   = findRow(Before, AsObject(pre.PK, call.sarg), call.options)
             /\ call.op = "findRowIndex"
                => Outcome(This, ret, requests)
                   = findRowIndex(Before, AsObject(pre.PK, call.sarg), call.options)
             /\ call.op = "deleteRow"
                => Outcome(This, ret, requests)
                   = deleteRow(Before, AsObject(pre.PK, call.sarg), call.options,
                               Published("del-row", TRUE))
       /\ Len(pre.PK) > 1
          => ret = Thrown(ExpectedObject) /\ PK = pre.PK /\ rows = pre.rows

\* A scalar that finds a row by a derived key of one column, in a store of
\* two rows.
C16_Witness ==
    /\ Searching("findRow")
    /\ call.sarg.type = "number"
    /\ Len(pre.PK) = 1
    /\ Len(rows) = 2
    /\ ret.type = "object"
    /\ ret.value[1][PK[1]] = call.sarg.num

\* The two failures: a scalar with no key, and a scalar with a derived key of
\* two columns.
C16_WitnessNoKey ==
    /\ Searching("deleteRow")
    /\ call.sarg.type = "number"
    /\ pre.PK = <<>>
    /\ Len(rows) = 2
    /\ ret = Thrown(CannotDerive)

C16_WitnessTwoColumns ==
    /\ Searching("deleteRow")
    /\ call.sarg.type = "number"
    /\ Len(pre.PK) = 2
    /\ Len(rows) = 2
    /\ ret = Thrown(ExpectedObject)

\* The number of distinct values of a column in the rows of a store.
DistinctValues(rs, key) == Cardinality({ rs[i][key] : i \in 1..Len(rs) })

\* The place of a key in a key list that holds it.
PlaceIn(keys, key) == CHOOSE i \in 1..Len(keys) : keys[i] = key

\* C17: the primary key derived from an object search argument by an
\* instance that has none holds exactly the keys of the object, each once;
\* with a local collection of the rows a column stands before another one
\* only if it has more distinct values in the rows, or as many and it comes
\* first in the object; without one the key is the keys of the object in
\* their order.
C17_DerivedKeyOrder ==
    ( /\ Searching("findRow")
      /\ pre.PK = <<>>
      /\ call.sarg.type = "object" )
    => /\ Len(PK) = Len(call.sarg.keys)
       /\ Range(PK) = Range(call.sarg.keys)
       /\ hasData =>
              \A i, j \in 1..Len(PK) :
                  i < j =>
                      \/ DistinctValues(rows, PK[i]) > DistinctValues(rows, PK[j])
                      \/ /\ DistinctValues(rows, PK[i]) = DistinctValues(rows, PK[j])
                         /\ PlaceIn(call.sarg.keys, PK[i]) < PlaceIn(call.sarg.keys, PK[j])
       /\ ~hasData => PK = call.sarg.keys

\* Three keys of which the last has the most distinct values and the first
\* two as many as each other: the last comes first, the two keep their order.
C17_Witness ==
    /\ Searching("findRow")
    /\ pre.PK = <<>>
    /\ hasData
    /\ Len(call.sarg.keys) = 3
    /\ PK = <<call.sarg.keys[3], call.sarg.keys[1], call.sarg.keys[2]>>
    /\ DistinctValues(rows, PK[1]) > DistinctValues(rows, PK[2])
    /\ DistinctValues(rows, PK[2]) = DistinctValues(rows, PK[3])

\* No local rows: the keys in the order of the object, whatever the rows.
C17_WitnessNoData ==
    /\ Searching("findRow")
    /\ pre.PK = <<>>
    /\ ~hasData
    /\ PK = <<"c", "a", "b">>
    /\ DistinctValues(rows, "a") > DistinctValues(rows, "c")

\* C18: in every state reached from a store of pairwise distinct keys by
\* handled insertRow and deleteRow calls (and findRow calls) with default
\* options, for every key k findRow(k) throws nothing and returns the row of
\* the store with key k when there is one and undefined when there is none.
C18_LookupAgreesWithStore ==
    \A r \in RowSet(PK) :
        IF Matching(PK, rows, KeyOf(PK, r)) = {}
        THEN findRow(This, ObjectSarg(PK, r), Default).ret = RetUndefined
        ELSE /\ findRow(This, ObjectSarg(PK, r), Default).ret.type = "object"
             /\ KeyOf(PK, findRow(This, ObjectSarg(PK, r), Default).ret.value[1])
                = KeyOf(PK, r)

\* C19: when the key given to deleteRow is in the store (over an index of the
\* store, or with presorted over a store in key order), the call publishes
\* one 'del-row' request and the position it passes is a position of the row
\* store whose row has that key; the call does not throw before the request.
C19_DeleteRequestsPhysicalPosition ==
    ( /\ Searching("deleteRow")
      /\ FullyQualified(PK, call.sarg)
      /\ TrustedBefore
      /\ Matching(PK, pre.rows, CallKey) # {} )
    => /\ ret.type # "throw"
       /\ Len(requests) = 1
       /\ requests[1].topic = "del-row"
       /\ requests[1].y # Undefined
       /\ requests[1].y[1] + 1 \in Matching(PK, pre.rows, CallKey)

\* The same without presorted, where it holds: the position passed is PX[p].
C19_IndexedDeleteRequest ==
    ( /\ Searching("deleteRow")
      /\ ~call.options.presorted
      /\ FullyQualified(PK, call.sarg)
      /\ TrustedBefore
      /\ Matching(PK, pre.rows, CallKey) # {} )
    => /\ ret.type # "throw"
       /\ Len(requests) = 1
       /\ requests[1].topic = "del-row"
       /\ requests[1].y # Undefined
       /\ requests[1].y[1] + 1 \in Matching(PK, pre.rows, CallKey)

\* C20: under every option and in every state, a row returned by findRow or
\* deleted by deleteRow has the values of the search argument on every column
\* of the primary key, and so has the row that makes insertRow report a
\* duplicate.
C20_MatchIsExact ==
    (Called /\ FullyQualified(PK, call.sarg))
    => /\ (call.op \in {"findRow", "deleteRow"} /\ ret.type = "object")
          => KeyOf(PK, ret.value[1]) = CallKey
       /\ (call.op = "insertRow" /\ ret = Thrown(RowExists))
          => KeyOf(PK, find(Before, call.sarg, call.options).dataRow[1]) = CallKey

\* The same where the search can rely on what it is given (an index of the
\* store, or with presorted a store in key order), where it holds.
C20_TrustedMatchIsExact ==
    (Called /\ FullyQualified(PK, call.sarg) /\ TrustedBefore)
    => /\ (call.op \in {"findRow", "deleteRow"} /\ ret.type = "object")
          => KeyOf(PK, ret.value[1]) = CallKey
       /\ (call.op = "insertRow" /\ ret = Thrown(RowExists))
          => KeyOf(PK, find(Before, call.sarg, call.options).dataRow[1]) = CallKey

====
